---------------------------- MODULE Spec2Model ----------------------------
(***************************************************************************)
(* A model of dbdump (src/src/lib.rs): the typed value serializer          *)
(* (cast_data, to_string, to_date_string, quote), the dependency ordering  *)
(* of tables and views (order_tables, order_views, reorder_vec) and the    *)
(* batch insert writer (the row loop of export_data), and the data loop of *)
(* the binary entry point (src/src/main.rs), which runs the same export.   *)
(*                                                                         *)
(* Text is modelled as a sequence of ASCII codes; a name is such a text.   *)
(***************************************************************************)
EXTENDS Integers, Sequences, FiniteSets

VARIABLES
    \* ---- cast_data applied to one cell ----
    cell,                   \* the cell read: declared type name and raw value
    result,                 \* what cast_data returned (or the panic it raised)
    cpc,                    \* "call" before cast_data ran, "returned" after
    \* ---- export_data ----
    single_row_inserts,     \* the flag of export_data
    skip_unknown_datatypes, \* the flag of export_data / cast_data
    data_rows,              \* the rows fetched for the current table
    i,                      \* index of the current row (0-based, as in the code)
    col,                    \* index of the next column to serialize (0-based)
    count,                  \* rows written for the current table
    out,                    \* the pieces of text handed to the writer, in order
    wstate,                 \* history: the writer's state after the last piece
    sizes,                  \* history: the rows of each statement written
    dpc,                    \* position in export_data
    \* ---- order_tables ----
    tables,                 \* the table names as discovered
    rows,                   \* the (TABLE_NAME, REFERENCED_TABLE_NAME) rows
    sorted_tables,          \* the list being reordered
    ei,                     \* number of rows already processed
    opc,                    \* position in order_tables
    \* ---- order_views ----
    views,                  \* the view names as discovered
    sorted_views,           \* the list being reordered
    vi,                     \* number of views already processed
    ddl,                    \* the FROM and JOIN matches of the current view's DDL
    mi,                     \* number of matches of the current phase processed
    handed,                 \* the last arguments handed to reorder_vec
    vpc,                    \* position in order_views
    \* ---- reorder_vec called on its own ----
    first_vec,              \* the list before the first call
    held_vec,               \* the list the calls hand on
    before,                 \* the list handed to the last call
    call,                   \* the names (table_name, ref_name) of the last call
    calls,                  \* number of calls made
    rpc,                    \* position in the sequence of calls
    \* ---- the data loop of main (main.rs) ----
    main_count,             \* count of main
    main_i,                 \* index of the current row
    main_col,               \* index of the next column to serialize
    main_out,               \* the pieces of text main handed to its writer
    mpc                     \* position in the data loop of main

castVars  == <<cell, result, cpc>>
dataVars  ==
    <<single_row_inserts, data_rows, i, col, count, out, wstate, sizes, dpc>>
orderVars == <<tables, rows, sorted_tables, ei, opc>>
viewVars  == <<views, sorted_views, vi, ddl, mi, handed, vpc>>
reorderVars == <<first_vec, held_vec, before, call, calls, rpc>>
mainVars  == <<main_count, main_i, main_col, main_out, mpc>>
vars == <<cell, result, cpc, single_row_inserts, skip_unknown_datatypes,
          data_rows, i, col, count, out, wstate, sizes, dpc, tables, rows, sorted_tables,
          ei, opc, views, sorted_views, vi, ddl, mi, handed, vpc,
          first_vec, held_vec, before, call, calls, rpc,
          main_count, main_i, main_col, main_out, mpc>>

-----------------------------------------------------------------------------
(* Characters (ASCII codes) the code names in its literals.                *)

\* "'" in quote
SQ == 39
\* "\\" in quote
BS == 92
\* "\n" in quote
LF == 10
\* "\r" in quote
CR == 13
\* the n of the two-character escape "\\n"
LowerN == 110
\* the r of the two-character escape "\\r"
LowerR == 114
\* "`" in the regular expressions of order_views
BackTick == 96
\* "." in the regular expressions of order_views
Dot == 46
\* "(" in the regular expressions of order_views
LParen == 40
\* a whitespace character matched by \s+
Space == 32

\* "UTC", the suffix to_date_string looks for
UTC == <<85, 84, 67>>

-----------------------------------------------------------------------------
(* Bounds of the model.                                                    *)

\* longest string value of a cell
MaxStrLen == 3
\* most foreign-key rows of a schema
MaxEdges == 2
\* most FROM matches, and most JOIN matches, in one view definition
MaxMatches == 1
\* most calls of reorder_vec made one after the other
MaxCalls == 2
\* most rows, and most columns, of a table whose rows are all different
MaxRows == 2
MaxCols == 2

\* all texts over alphabet A of length at most n
RECURSIVE TextsUpTo(_, _)
TextsUpTo(A, n) ==
    IF n = 0 THEN {<<>>}
    ELSE LET shorter == TextsUpTo(A, n - 1)
         IN  shorter \cup {Append(s, c) : s \in shorter, c \in A}

-----------------------------------------------------------------------------
(* Text helpers: what the Rust standard library does.                      *)

\* str::starts_with
StartsWith(s, p) == Len(s) >= Len(p) /\ SubSeq(s, 1, Len(p)) = p

\* str::ends_with
EndsWith(s, p) ==
    Len(s) >= Len(p) /\ SubSeq(s, Len(s) - Len(p) + 1, Len(s)) = p

\* str::replace(from, to): every non-overlapping match of from, found left to
\* right, is replaced by to (from is never empty here)
RECURSIVE Replace(_, _, _)
Replace(s, from, to) ==
    IF Len(s) < Len(from) THEN s
    ELSE IF StartsWith(s, from)
         THEN to \o Replace(SubSeq(s, Len(from) + 1, Len(s)), from, to)
         ELSE <<Head(s)>> \o Replace(Tail(s), from, to)

\* u8::to_ascii_lowercase
ToAsciiLowercase(c) == IF c >= 65 /\ c <= 90 THEN c + 32 ELSE c

\* str::eq_ignore_ascii_case
EqIgnoreAsciiCase(s, t) ==
    /\ Len(s) = Len(t)
    /\ \A k \in 1..Len(s) : ToAsciiLowercase(s[k]) = ToAsciiLowercase(t[k])

-----------------------------------------------------------------------------
(* The typed value serializer: quote, to_string, to_date_string, cast_data *)

\* quote as it would be had the backslash replacement been forgotten
quote_NoBackslash(str) ==
    <<SQ>>
    \o Replace(Replace(Replace(str, <<SQ>>, <<SQ, SQ>>),
                       <<LF>>, <<BS, LowerN>>),
               <<CR>>, <<BS, LowerR>>)
    \o <<SQ>>

\* quote with the backslash replacement made last, after the two that
\* introduce backslashes
quote_BackslashLast(str) ==
    <<SQ>>
    \o Replace(Replace(Replace(Replace(str, <<SQ>>, <<SQ, SQ>>),
                               <<LF>>, <<BS, LowerN>>),
                       <<CR>>, <<BS, LowerR>>),
               <<BS>>, <<BS, BS>>)
    \o <<SQ>>

\* fn quote: the four replacements in the order the code applies them,
\* wrapped in single quotes
quote(str) ==
    <<SQ>>
    \o Replace(Replace(Replace(Replace(str, <<SQ>>, <<SQ, SQ>>),
                               <<BS>>, <<BS, BS>>),
                       <<LF>>, <<BS, LowerN>>),
               <<CR>>, <<BS, LowerR>>)
    \o <<SQ>>

\* Option<String> and the panic of cast_data, as one record shape
None == [tag |-> "None", s |-> <<>>, msg |-> <<>>]
Some(text) == [tag |-> "Some", s |-> text, msg |-> <<>>]
Panic(message) == [tag |-> "panic", s |-> <<>>, msg |-> message]

\* a cell's raw value: absent (SQL NULL), or the text Display gives for the
\* decoded value
Absent == [null |-> TRUE, v |-> <<>>]
Present(text) == [null |-> FALSE, v |-> text]

\* Row::try_get: Err for a NULL cell (UnexpectedNull), Ok(v) otherwise
try_get(value) ==
    IF value.null THEN [ok |-> FALSE, v |-> <<>>] ELSE [ok |-> TRUE, v |-> value.v]

\* fn to_string<T: Display>(n, q)
to_string(n, q) ==
    IF n.ok THEN Some(IF q THEN quote(n.v) ELSE n.v) ELSE None

\* fn to_date_string: a trailing "UTC" and the space before it are cut off,
\* the text is wrapped in single quotes and not escaped
to_date_string(n) ==
    IF n.ok
    THEN LET str == IF EndsWith(n.v, UTC)
                    THEN SubSeq(n.v, 1, Len(n.v) - 4)
                    ELSE n.v
         IN  Some(<<SQ>> \o str \o <<SQ>>)
    ELSE None

\* the type names cast_data matches, by the arm they take
UnquotedTypes ==
    {"BOOLEAN", "TINYINT", "BIT", "SMALLINT", "INT", "BIGINT",
     "TINYINT UNSIGNED", "SMALLINT UNSIGNED", "INT UNSIGNED", "BIGINT UNSIGNED",
     "FLOAT", "DOUBLE", "DECIMAL"}
QuotedTypes == {"CHAR", "VARCHAR", "TEXT", "ENUM"}
DateTypes == {"TIMESTAMP", "DATETIME", "DATE", "TIME"}
BinaryTypes == {"VARBINARY", "BINARY", "BLOB"}
RecognizedTypes == UnquotedTypes \cup QuotedTypes \cup DateTypes \cup BinaryTypes

\* the panic message of cast_data: it is formatted with the type name
PanicMessage(type_name) ==
    <<"The database type ", type_name,
      " is not implemented in this version of dbdump. Please try to download a more recent version or report a bug if you are on the most recent version">>

\* the `_` arm with the test of the flag inverted
UnknownArm_Inverted(type_name, skip) ==
    IF skip THEN Panic(PanicMessage(type_name)) ELSE None

\* the `_` arm of cast_data
UnknownArm(type_name, skip) ==
    IF skip THEN None ELSE Panic(PanicMessage(type_name))

\* pub fn cast_data(row, index, skip_unknown_datatypes), on the cell at index
cast_data(c, skip) ==
    IF c.type_name \in UnquotedTypes THEN to_string(try_get(c.value), FALSE)
    ELSE IF c.type_name \in QuotedTypes THEN to_string(try_get(c.value), TRUE)
    ELSE IF c.type_name \in DateTypes THEN to_date_string(try_get(c.value))
    ELSE IF c.type_name \in BinaryTypes THEN None
    ELSE UnknownArm(c.type_name, skip)

-----------------------------------------------------------------------------
(* Inputs of the serializer.                                               *)

\* declared type names the match of cast_data does not list
UnknownTypes == {"JSON", "GEOMETRY"}
TypeNames == RecognizedTypes \cup UnknownTypes

\* the characters quote treats specially, and the letters n and r
Alphabet == {SQ, BS, LF, CR, LowerN, LowerR}

\* O'Brien
OBrien == <<79, SQ, 66, 114, 105, 101, 110>>

StringValues == TextsUpTo(Alphabet, MaxStrLen) \cup {OBrien}
\* "0", "-1", "1.5"
NumberValues == {<<48>>, <<45, 49>>, <<49, 46, 53>>}
\* "12:30:00" shortened to "12", with and without the zone suffix
DateValues == {<<49, 50>>, <<49, 50, Space>> \o UTC}

ValuesOf(type_name) ==
    {Absent} \cup
    {Present(t) : t \in IF type_name \in QuotedTypes THEN StringValues
                        ELSE IF type_name \in DateTypes THEN DateValues
                        ELSE NumberValues}

Cells == UNION {{[type_name |-> t, value |-> v] : v \in ValuesOf(t)} : t \in TypeNames}

NoCell == [type_name |-> "", value |-> Absent]

-----------------------------------------------------------------------------
(* The dependency ordering: order_tables and reorder_vec.                  *)

\* Iterator::position(|s| s.eq_ignore_ascii_case(name)) over the elements of
\* list after the first `from`: the 0-based index, counted from there, of the
\* first match, or -1 for None
PositionFrom(list, from, name) ==
    LET rest == SubSeq(list, from + 1, Len(list))
        hits == {k \in 1..Len(rest) : EqIgnoreAsciiCase(rest[k], name)}
    IN  IF hits = {} THEN -1
        ELSE (CHOOSE k \in hits : \A h \in hits : k <= h) - 1

\* position over a fresh iterator
Position(list, name) == PositionFrom(list, 0, name)

\* a remove that leaves the element where it is
Remove_Nothing(list, index) == list

\* Vec::remove(index) and Vec::insert(index, element), 0-based
Remove(list, index) ==
    SubSeq(list, 1, index) \o SubSeq(list, index + 2, Len(list))
Insert(list, index, el) ==
    SubSeq(list, 1, index) \o <<el>> \o SubSeq(list, index + 1, Len(list))

\* the move made as an exchange of the two elements
MoveBefore_Swap(list, tab_index, ref_index) ==
    IF ref_index > tab_index
    THEN [list EXCEPT ![tab_index + 1] = list[ref_index + 1],
                      ![ref_index + 1] = list[tab_index + 1]]
    ELSE list

\* the move both call sites make when ref_index > tab_index
MoveBefore(list, tab_index, ref_index) ==
    IF ref_index > tab_index
    THEN Insert(Remove(list, ref_index), tab_index, list[ref_index + 1])
    ELSE list

\* the loop body with a missing referenced table taken for the last element
OrderStep_MissingRefIsLast(list, row) ==
    LET tab_index == Position(list, row[1])
        ref_index == Position(list, row[2])
    IN  IF tab_index = -1 THEN list
        ELSE MoveBefore(list, tab_index,
                        IF ref_index = -1 THEN Len(list) - 1 ELSE ref_index)

\* the body of the loop of order_tables, for one row (TABLE_NAME,
\* REFERENCED_TABLE_NAME)
OrderStep(list, row) ==
    LET tab_index == Position(list, row[1])
        ref_index == Position(list, row[2])
    IN  IF tab_index = -1 THEN list
        ELSE IF ref_index = -1 THEN list
        ELSE MoveBefore(list, tab_index, ref_index)

\* order_tables as a function: the loop over all the rows
RECURSIVE OrderAll(_, _)
OrderAll(list, edges) ==
    IF edges = <<>> THEN list
    ELSE OrderAll(OrderStep(list, Head(edges)), Tail(edges))

\* fn reorder_vec: both positions are taken from the one iterator `it`, so
\* the second search starts after the element the first one stopped at and
\* counts from there; when the first search finds nothing the iterator is
\* exhausted and the second finds nothing either
reorder_vec(vec, table_name, ref_name) ==
    LET tab_index == PositionFrom(vec, 0, table_name)
        ref_index == IF tab_index = -1 THEN -1
                     ELSE PositionFrom(vec, tab_index + 1, ref_name)
    IN  IF tab_index = -1 THEN vec
        ELSE IF ref_index = -1 THEN vec
        ELSE MoveBefore(vec, tab_index, ref_index)

\* "from" and "join", the keywords the two regular expressions start with
KwFrom == <<102, 114, 111, 109>>
KwJoin == <<106, 111, 105, 110>>

\* the capture groups of one match of  kw\s+(\()?`[^`]+`\.`([^`]+)`  :
\* group 0 is the whole matched text, group 1 the optional parenthesis,
\* group 2 the second quoted identifier
Captures(kw, m) ==
    LET paren == IF m.paren THEN <<LParen>> ELSE <<>>
    IN  << kw \o <<Space>> \o paren \o <<BackTick>> \o m.schema
              \o <<BackTick, Dot, BackTick>> \o m.object \o <<BackTick>>,
           paren,
           m.object >>

\* &grp[0].to_string(): the name order_views hands to reorder_vec
HandedName(kw, m) == Captures(kw, m)[1]

-----------------------------------------------------------------------------
(* Inputs of the ordering.                                                 *)

\* "a", "b", "c": the tables of the schema
TableNames == {<<97>>, <<98>>, <<99>>}
\* names a foreign-key row can carry: the tables, "B" (b in another case)
\* and "z" (no table of the list)
EdgeNames == TableNames \cup {<<66>>, <<122>>}

\* all lists of distinct names drawn from S
RECURSIVE ListsOf(_)
ListsOf(S) ==
    {<<>>} \cup UNION {{<<x>> \o l : l \in ListsOf(S \ {x})} : x \in S}

\* all sequences over S of length at most n
RECURSIVE SeqsUpTo(_, _)
SeqsUpTo(S, n) ==
    IF n = 0 THEN {<<>>}
    ELSE LET shorter == SeqsUpTo(S, n - 1)
         IN  shorter \cup {Append(q, x) : q \in shorter, x \in S}

\* "v", "w", "x": the views of the schema
ViewNames == {<<118>>, <<119>>, <<120>>}
\* what a FROM or JOIN clause can name: a view, or the table "t"; the schema
\* is "s"
Refs == [paren : BOOLEAN, schema : {<<115>>}, object : ViewNames \cup {<<116>>}]
\* the matches the two regular expressions find in one definition
DDLs == [from : SeqsUpTo(Refs, MaxMatches), join : SeqsUpTo(Refs, MaxMatches)]
NoDDL == [from |-> <<>>, join |-> <<>>]
NoCall ==
    [called |-> FALSE, table_name |-> <<>>, ref_name |-> <<>>,
     object |-> <<>>, before |-> <<>>]

-----------------------------------------------------------------------------
(* The batch insert writer: the pieces of export_data.                     *)

\* the batch size of `if single_row_inserts { 1 } else { 100 }`
BatchSize == 100

\* let max_insert_count = if single_row_inserts { 1 } else { 100 }
max_insert_count(single) == IF single THEN 1 ELSE BatchSize

\* the pieces of text export_data hands to the writer; s is the literal of a
\* value piece
Piece(kind) == [k |-> kind, s |-> <<>>]
\* println("-- Extracting data for {}")
CommentLine == Piece("comment")
\* print("insert into `{}` ({}) values(")
Opener == Piece("open")
\* print(");\n") and println(");"): the same text
Closer == Piece("close")
\* print("),\n\t(")
Separator == Piece("sep")

\* the piece printed for a cast_data result that is not a panic: "{}," or
\* "NULL," for the columns 0..cols-1, "{}" or "NULL" for the last one
ValuePiece(r, last) ==
    IF r.tag = "Some"
    THEN [k |-> IF last THEN "value" ELSE "value,", s |-> r.s]
    ELSE Piece(IF last THEN "NULL" ELSE "NULL,")

\* the test before a row with the remainder forgotten: an opener for the
\* first row of the table only
OpensStatement_FirstRowOnly(cnt, single) == cnt = 0

\* if count % max_insert_count == 0, before a row: an opener is printed
OpensStatement(cnt, single) == cnt % max_insert_count(single) = 0

\* the piece after a row with the batch test forgotten: a statement is
\* closed by the last row of the table only
RowTerminator_NoBatch(cnt, single, index, len) ==
    IF index >= len - 1 THEN Closer ELSE Separator

\* the piece printed after a row, count being already incremented
RowTerminator(cnt, single, index, len) ==
    IF cnt % max_insert_count(single) = 0 THEN Closer
    ELSE IF index >= len - 1 THEN Closer
    ELSE Separator

-----------------------------------------------------------------------------
(* History of the text written: the writer's state machine.                *)

\* the piece ends a row: the value of the last column
EndsRow(piece) == piece.k \in {"value", "NULL"}

\* the state of the writer after a piece, per table:
\*   "Idle"    no statement is open (before the first, or after a close)
\*   "Opened"  an opener or a separator was written: a row must follow
\*   "InRow"   a value followed by a comma was written
\*   "RowDone" the last value of a row was written
\*   "Broken"  the piece could not follow the one before it
Follow(state, piece) ==
    IF piece.k = "comment" /\ state = "Idle" THEN "Idle"
    ELSE IF piece.k = "open" /\ state = "Idle" THEN "Opened"
    ELSE IF piece.k \in {"value,", "NULL,"} /\ state \in {"Opened", "InRow"}
         THEN "InRow"
    ELSE IF EndsRow(piece) /\ state \in {"Opened", "InRow"} THEN "RowDone"
    ELSE IF piece.k = "sep" /\ state = "RowDone" THEN "Opened"
    ELSE IF piece.k = "close" /\ state = "RowDone" THEN "Idle"
    ELSE "Broken"

\* the rows of each statement after a piece: an opener starts a statement of
\* no rows, the last value of a row written inside a statement adds one to
\* the last statement
Tally(counts, state, piece) ==
    IF piece.k = "open" THEN Append(counts, 0)
    ELSE IF EndsRow(piece) /\ state \in {"Opened", "InRow"} /\ counts # <<>>
         THEN [counts EXCEPT ![Len(counts)] = @ + 1]
    ELSE counts

\* StdWriter::print / println of one piece, with the history of the text
Emit(piece) ==
    /\ out' = Append(out, piece)
    /\ wstate' = Follow(wstate, piece)
    /\ sizes' = Tally(sizes, wstate, piece)

-----------------------------------------------------------------------------
(* Inputs of the writer.                                                   *)

\* the declared types of the tables exported in SpecData
ExportTypes == {"INT", "VARCHAR", "JSON"}
\* a cell of a declared type: absent, or one value ("7", or the string "n'")
ExportCells(t) ==
    {[type_name |-> t, value |-> v] :
        v \in {Absent, Present(IF t = "VARCHAR" THEN <<LowerN, SQ>> ELSE <<55>>)}}
\* the column types of a table: one type per column, at least one column
ColumnSets(n) == UNION {[1..c -> ExportTypes] : c \in 1..n}
\* the rows a table of these columns can hold
RowsOf(cs) ==
    {r \in [1..Len(cs) -> UNION {ExportCells(t) : t \in ExportTypes}] :
        \A k \in 1..Len(cs) : r[k].type_name = cs[k]}
\* row counts around the batch size
BigCounts ==
    {BatchSize - 1, BatchSize, BatchSize + 1, 2 * BatchSize, 2 * BatchSize + 1}
\* what `select * from schema.table` can return: up to MaxRows arbitrary rows
\* of up to MaxCols columns, or a one-column table of equal rows whose row
\* count is around the batch size
FetchedTables ==
    UNION {SeqsUpTo(RowsOf(cs), MaxRows) : cs \in ColumnSets(MaxCols)}
    \cup UNION {{[k \in 1..m |-> r] : m \in BigCounts, r \in RowsOf(cs)} :
                    cs \in ColumnSets(1)}

-----------------------------------------------------------------------------
(* The data loop of main (main.rs): its own cast_data, quote and pieces.   *)

\* the batch size of main: `if args.single_row_inserts { 1 } else { 100 }`
MainBatchSize == 100

\* main.rs: let max_insert_count = if args.single_row_inserts { 1 } else { 100 }
main_max_insert_count(single) == IF single THEN 1 ELSE MainBatchSize

\* main.rs: fn quote(str) is format!("'{}'", str)
main_quote(str) == <<SQ>> \o str \o <<SQ>>

\* main.rs: fn to_string<T: Display>(n, q), calling the quote of main.rs
main_to_string(n, q) ==
    IF n.ok THEN Some(IF q THEN main_quote(n.v) ELSE n.v) ELSE None

\* main.rs: pub fn cast_data; its match has no "BIT" arm
main_cast_data(c, skip) ==
    IF c.type_name \in UnquotedTypes \ {"BIT"}
    THEN main_to_string(try_get(c.value), FALSE)
    ELSE IF c.type_name \in QuotedTypes
    THEN main_to_string(try_get(c.value), TRUE)
    ELSE IF c.type_name \in DateTypes THEN to_date_string(try_get(c.value))
    ELSE IF c.type_name \in BinaryTypes THEN None
    ELSE UnknownArm(c.type_name, skip)

\* print("insert into {} ({}) values("): the opener of main, the table name
\* without backticks
MainOpener == Piece("open_bare")
\* the text "));\n" that starts the print at a full batch
MainBatchCloser == Piece("close_paren")

\* if count == 0, before a row: main prints an opener
MainOpensStatement(cnt) == cnt = 0

\* the pieces main prints after a row, count being already incremented: at a
\* full batch one print of "));\ninsert into {} ({}) values(", otherwise
\* println(");") after the last row and print("),\n\t(") after another
MainRowTerminator(cnt, single, index, len) ==
    IF cnt % main_max_insert_count(single) = 0
    THEN <<MainBatchCloser, MainOpener>>
    ELSE IF index >= len - 1 THEN <<Closer>>
    ELSE <<Separator>>

-----------------------------------------------------------------------------
(* Values of the variables a specification does not use.                   *)

CastOff == cell = NoCell /\ result = None /\ cpc = "off"
DataOff ==
    /\ single_row_inserts = FALSE /\ data_rows = <<>> /\ i = 0 /\ col = 0
    /\ count = 0 /\ out = <<>> /\ wstate = "Idle" /\ sizes = <<>> /\ dpc = "off"
OrderOff ==
    /\ tables = <<>> /\ rows = <<>> /\ sorted_tables = <<>> /\ ei = 0
    /\ opc = "off"
ViewOff ==
    /\ views = <<>> /\ sorted_views = <<>> /\ vi = 0 /\ ddl = NoDDL /\ mi = 0
    /\ handed = NoCall /\ vpc = "off"

ReorderOff ==
    /\ first_vec = <<>> /\ held_vec = <<>> /\ before = <<>> /\ call = <<>> /\ calls = 0
    /\ rpc = "off"
MainOff ==
    /\ main_count = 0 /\ main_i = 0 /\ main_col = 0 /\ main_out = <<>>
    /\ mpc = "off"

-----------------------------------------------------------------------------
(* SpecCast: cast_data applied to one cell of every declared type.         *)

InitCast ==
    /\ cell \in Cells
    /\ skip_unknown_datatypes \in BOOLEAN
    /\ result = None
    /\ cpc = "call"
    /\ DataOff /\ OrderOff /\ ViewOff /\ ReorderOff /\ MainOff

\* one call cast_data(&data, index, skip_unknown_datatypes)
CastCell ==
    /\ cpc = "call"
    /\ result' = cast_data(cell, skip_unknown_datatypes)
    /\ cpc' = "returned"
    /\ UNCHANGED <<reorderVars, mainVars>>
    /\ UNCHANGED <<cell, skip_unknown_datatypes, dataVars, orderVars, viewVars>>

NextCast == CastCell

SpecCast == InitCast /\ [][NextCast]_vars

-----------------------------------------------------------------------------
(* Claims about the serializer (SpecCast).                                 *)

\* the literal without its enclosing quotes
StripQuotes(lit) == SubSeq(lit, 2, Len(lit) - 1)

\* the four substitutions undone one after the other, last applied first
ReverseSubstitutions(body) ==
    Replace(Replace(Replace(Replace(body, <<BS, LowerR>>, <<CR>>),
                            <<BS, LowerN>>, <<LF>>),
                    <<BS, BS>>, <<BS>>),
            <<SQ, SQ>>, <<SQ>>)

\* the four substitutions undone in one left-to-right scan: at each position
\* the two-character escape that starts there, if any, is decoded as a whole
RECURSIVE ScanDecode(_)
ScanDecode(body) ==
    IF body = <<>> THEN <<>>
    ELSE IF StartsWith(body, <<BS, BS>>)
         THEN <<BS>> \o ScanDecode(SubSeq(body, 3, Len(body)))
    ELSE IF StartsWith(body, <<BS, LowerN>>)
         THEN <<LF>> \o ScanDecode(SubSeq(body, 3, Len(body)))
    ELSE IF StartsWith(body, <<BS, LowerR>>)
         THEN <<CR>> \o ScanDecode(SubSeq(body, 3, Len(body)))
    ELSE IF StartsWith(body, <<SQ, SQ>>)
         THEN <<SQ>> \o ScanDecode(SubSeq(body, 3, Len(body)))
    ELSE <<Head(body)>> \o ScanDecode(Tail(body))

\* a string cell was serialized through quote
QuotedCellDone ==
    cpc = "returned" /\ cell.type_name \in QuotedTypes /\ ~cell.value.null

\* C3 as stated: undoing the four substitutions of the literal one after the
\* other (and removing the enclosing quotes) gives back the original string.
C3_RoundTripBySubstitution ==
    QuotedCellDone =>
        ReverseSubstitutions(StripQuotes(result.s)) = cell.value.v

\* C3 amended: decoding the literal in one left-to-right scan that undoes the
\* four substitutions (after removing the enclosing quotes) gives back the
\* original string, for every string over ', \, LF, CR, n and r.
C3_RoundTripByScan ==
    QuotedCellDone =>
        /\ result.tag = "Some"
        /\ Len(result.s) >= 2
        /\ Head(result.s) = SQ /\ result.s[Len(result.s)] = SQ
        /\ ScanDecode(StripQuotes(result.s)) = cell.value.v

\* the string ' \ LF was quoted to ' '' \\ \n '
C3_Witness ==
    /\ QuotedCellDone
    /\ cell.value.v = <<SQ, BS, LF>>
    /\ result.s = <<SQ, SQ, SQ, BS, BS, BS, LowerN, SQ>>

\* C4: a cell whose value is absent is serialized as NULL (cast_data returns
\* None, which export_data prints as NULL) without failing, for every
\* declared type name and both values of skip_unknown_datatypes.
C4_NullTransparency ==
    (cpc = "returned" /\ cell.value.null) => result = None

\* C5: for an unrecognized type name cast_data panics with a message naming
\* the type when skip_unknown_datatypes is false, and returns None when it
\* is true.
C5_UnknownTypeToggle ==
    (cpc = "returned" /\ cell.type_name \notin RecognizedTypes) =>
        IF skip_unknown_datatypes
        THEN result = None
        ELSE /\ result.tag = "panic"
             /\ \E k \in 1..Len(result.msg) : result.msg[k] = cell.type_name

\* a JSON cell made cast_data panic while the flag was off
C5_Witness ==
    /\ cpc = "returned"
    /\ cell.type_name = "JSON"
    /\ ~cell.value.null
    /\ ~skip_unknown_datatypes
    /\ result.tag = "panic"

\* the number of occurrences of character c in a text
Occurrences(text, c) == Cardinality({k \in 1..Len(text) : text[k] = c})

\* the body of a literal reads, left to right, as a sequence of doubled
\* quotes, doubled backslashes, \n and \r escapes, and characters that are
\* none of quote, backslash, LF and CR
RECURSIVE ReadsAsLiteralBody(_)
ReadsAsLiteralBody(body) ==
    IF body = <<>> THEN TRUE
    ELSE IF \/ StartsWith(body, <<SQ, SQ>>)
            \/ StartsWith(body, <<BS, BS>>)
            \/ StartsWith(body, <<BS, LowerN>>)
            \/ StartsWith(body, <<BS, LowerR>>)
         THEN ReadsAsLiteralBody(SubSeq(body, 3, Len(body)))
    ELSE /\ Head(body) \notin {SQ, BS, LF, CR}
         /\ ReadsAsLiteralBody(Tail(body))

\* C11: the literal quote returns begins and ends with a single quote, holds
\* no raw LF or CR, reads as one string literal, holds every quote of the
\* input doubled, and holds two backslashes for every backslash of the input
\* and one (not doubled) for every LF and CR of the input.
C11_SingleLineLiteral ==
    QuotedCellDone =>
        LET str == cell.value.v
            lit == result.s
            body == StripQuotes(lit)
        IN  /\ result.tag = "Some"
            /\ Len(lit) >= 2 /\ lit[1] = SQ /\ lit[Len(lit)] = SQ
            /\ Occurrences(body, LF) = 0 /\ Occurrences(body, CR) = 0
            /\ ReadsAsLiteralBody(body)
            /\ Occurrences(body, SQ) = 2 * Occurrences(str, SQ)
            /\ Occurrences(body, BS)
                  = 2 * Occurrences(str, BS) + Occurrences(str, LF)
                    + Occurrences(str, CR)
            /\ Len(body) = Len(str) + Occurrences(str, SQ) + Occurrences(str, BS)
                           + Occurrences(str, LF) + Occurrences(str, CR)

\* the string LF CR \ was quoted to ' \n \r \\ '
C11_Witness ==
    /\ QuotedCellDone
    /\ cell.value.v = <<LF, CR, BS>>
    /\ result.s = <<SQ, BS, LowerN, BS, LowerR, BS, BS, SQ>>

-----------------------------------------------------------------------------
(* SpecOrder: order_tables on a list of tables and the foreign-key rows.   *)

\* the state before the loop: sorted_tables is the list as discovered and
\* the rows are fetched
InitOrder ==
    /\ tables \in ListsOf(TableNames)
    /\ rows \in SeqsUpTo(EdgeNames \X EdgeNames, MaxEdges)
    /\ sorted_tables = tables
    /\ ei = 0
    /\ opc = "loop"
    /\ skip_unknown_datatypes = FALSE
    /\ CastOff /\ DataOff /\ ViewOff /\ ReorderOff /\ MainOff

\* one iteration of `for row in rows`
ProcessRow ==
    /\ opc = "loop"
    /\ ei < Len(rows)
    /\ sorted_tables' = OrderStep(sorted_tables, rows[ei + 1])
    /\ ei' = ei + 1
    /\ UNCHANGED <<reorderVars, mainVars>>
    /\ UNCHANGED <<tables, rows, opc, skip_unknown_datatypes,
                   castVars, dataVars, viewVars>>

\* return Ok(sorted_tables)
ReturnOrder ==
    /\ opc = "loop"
    /\ ei = Len(rows)
    /\ opc' = "done"
    /\ UNCHANGED <<reorderVars, mainVars>>
    /\ UNCHANGED <<tables, rows, sorted_tables, ei, skip_unknown_datatypes,
                   castVars, dataVars, viewVars>>

NextOrder == ProcessRow \/ ReturnOrder

SpecOrder == InitOrder /\ [][NextOrder]_vars

-----------------------------------------------------------------------------
(* Claims about order_tables (SpecOrder).                                  *)

\* the 1-based place of the table a name denotes in list, 0 when it denotes
\* none
PlaceOf(list, name) == Position(list, name) + 1

\* a row one of whose names matches no table of the list
Dangling(row) == Position(tables, row[1]) = -1 \/ Position(tables, row[2]) = -1

\* the rows as pairs of places in the discovered list
EdgePairs ==
    {<<PlaceOf(tables, rows[k][1]), PlaceOf(tables, rows[k][2])>> :
        k \in 1..Len(rows)}

\* R with every two-step path added, n times over
RECURSIVE PathsOf(_, _)
PathsOf(R, n) ==
    IF n = 0 THEN R
    ELSE PathsOf(R \cup {<<x[1][1], x[2][2]>> :
                            x \in {y \in R \X R : y[1][2] = y[2][1]}},
                 n - 1)

\* no table depends on itself through one or more rows
Acyclic == \A k \in 1..Len(tables) : <<k, k>> \notin PathsOf(EdgePairs, Len(tables))

\* every name of every row denotes a table of the list
AllPresent == \A k \in 1..Len(rows) : ~Dangling(rows[k])

\* every referenced table is at or before its dependent table
RespectsEdges(list) ==
    \A k \in 1..Len(rows) :
        ~Dangling(rows[k]) =>
            Position(list, rows[k][2]) <= Position(list, rows[k][1])

\* C1: when the rows contain no cycle and name only tables of the list, the
\* list order_tables returns has every referenced table at or before each of
\* its dependent tables.
C1_AcyclicOrdered ==
    (opc = "done" /\ AllPresent /\ Acyclic) => RespectsEdges(sorted_tables)

\* C6: running the reordering again on the returned list, with the same rows
\* in the same order, returns the same list.
C6_Idempotent ==
    opc = "done" => OrderAll(sorted_tables, rows) = sorted_tables

\* the rows processed so far, without the dangling ones
RECURSIVE WithoutDangling(_)
WithoutDangling(edges) ==
    IF edges = <<>> THEN <<>>
    ELSE IF Dangling(Head(edges)) THEN WithoutDangling(Tail(edges))
    ELSE <<Head(edges)>> \o WithoutDangling(Tail(edges))

\* C7: dangling rows, wherever they stand among the rows, change nothing:
\* after each row the list equals the list ordered by the non-dangling rows
\* processed so far; and reorder_vec, handed the names of a dangling row,
\* returns the list it was given.
C7_DanglingNoOp ==
    opc \in {"loop", "done"} =>
        /\ sorted_tables
               = OrderAll(tables, WithoutDangling(SubSeq(rows, 1, ei)))
        /\ \A k \in 1..Len(rows) :
               Dangling(rows[k]) =>
                   reorder_vec(sorted_tables, rows[k][1], rows[k][2])
                       = sorted_tables

\* a dangling row was processed, then a row that moved a table
C7_Witness ==
    /\ opc = "done"
    /\ Len(rows) = 2
    /\ Dangling(rows[1]) /\ ~Dangling(rows[2])
    /\ sorted_tables # tables

\* what C12 says of one iteration of the loop, from list to next, for the
\* row (d, r) whose names are both present
StepAsDescribed(list, next, row) ==
    LET d == Position(list, row[1])
        r == Position(list, row[2])
    IN  (d # -1 /\ r # -1) =>
            IF r > d
            THEN /\ Len(next) = Len(list)
                 /\ next[d + 1] = list[r + 1]
                 /\ next[d + 2] = list[d + 1]
                 /\ Remove(next, d) = Remove(list, r)
            ELSE next = list

\* C12: one iteration of the loop of order_tables for a row (d, r) with both
\* names present puts r at d's former index and d right after it, the other
\* tables keeping their relative order, when r stood after d, and changes
\* nothing when r stood at or before d (d = r included); and the discovery
\* order [a, b] with the single row (a, b) ends as [b, a].
C12_StepMovesRefBeforeTable ==
    /\ [][ei' = ei + 1 =>
            StepAsDescribed(sorted_tables, sorted_tables', rows[ei + 1])]_vars
    /\ [](( /\ opc = "done"
            /\ tables = << <<97>>, <<98>> >>
            /\ rows = << << <<97>>, <<98>> >> >> )
          => sorted_tables = << <<98>>, <<97>> >>)

\* the last of three tables, referenced by the first, was moved to the front
C12_Witness ==
    /\ opc = "done"
    /\ tables = << <<97>>, <<98>>, <<99>> >>
    /\ rows = << << <<97>>, <<99>> >> >>
    /\ sorted_tables = << <<99>>, <<97>>, <<98>> >>

-----------------------------------------------------------------------------
(* SpecViews: order_views on a list of views.                              *)

\* the state before the loop: sorted_views is the list as discovered
InitViews ==
    /\ views \in ListsOf(ViewNames)
    /\ sorted_views = views
    /\ vi = 0
    /\ ddl = NoDDL
    /\ mi = 0
    /\ handed = NoCall
    /\ vpc = "fetch"
    /\ skip_unknown_datatypes = FALSE
    /\ CastOff /\ DataOff /\ OrderOff /\ ReorderOff /\ MainOff

\* SHOW CREATE VIEW for the next view of `views`
FetchDDL ==
    /\ vpc = "fetch"
    /\ vi < Len(views)
    /\ ddl' \in DDLs
    /\ mi' = 0
    /\ vpc' = "from"
    /\ UNCHANGED <<reorderVars, mainVars>>
    /\ UNCHANGED <<views, sorted_views, vi, handed, skip_unknown_datatypes,
                   castVars, dataVars, orderVars>>

\* one call of reorder_vec from one of the two capture loops
CallReorder(kw, m) ==
    LET name == HandedName(kw, m)
    IN  /\ sorted_views' = reorder_vec(sorted_views, views[vi + 1], name)
        /\ handed' = [called |-> TRUE, table_name |-> views[vi + 1],
                      ref_name |-> name, object |-> m.object,
                      before |-> sorted_views]
        /\ mi' = mi + 1

\* one iteration of `for grp in from_regex.captures_iter(&ddl.1)`
FromMatch ==
    /\ vpc = "from"
    /\ mi < Len(ddl.from)
    /\ CallReorder(KwFrom, ddl.from[mi + 1])
    /\ UNCHANGED <<reorderVars, mainVars>>
    /\ UNCHANGED <<views, vi, ddl, vpc, skip_unknown_datatypes,
                   castVars, dataVars, orderVars>>

\* the FROM matches are exhausted
FromDone ==
    /\ vpc = "from"
    /\ mi = Len(ddl.from)
    /\ mi' = 0
    /\ vpc' = "join"
    /\ UNCHANGED <<reorderVars, mainVars>>
    /\ UNCHANGED <<views, sorted_views, vi, ddl, handed,
                   skip_unknown_datatypes, castVars, dataVars, orderVars>>

\* one iteration of `for grp in join_regex.captures_iter(&ddl.1)`
JoinMatch ==
    /\ vpc = "join"
    /\ mi < Len(ddl.join)
    /\ CallReorder(KwJoin, ddl.join[mi + 1])
    /\ UNCHANGED <<reorderVars, mainVars>>
    /\ UNCHANGED <<views, vi, ddl, vpc, skip_unknown_datatypes,
                   castVars, dataVars, orderVars>>

\* the JOIN matches are exhausted: on to the next view
JoinDone ==
    /\ vpc = "join"
    /\ mi = Len(ddl.join)
    /\ mi' = 0
    /\ vi' = vi + 1
    /\ vpc' = "fetch"
    /\ UNCHANGED <<reorderVars, mainVars>>
    /\ UNCHANGED <<views, sorted_views, ddl, handed,
                   skip_unknown_datatypes, castVars, dataVars, orderVars>>

\* return Ok(sorted_views)
ReturnViews ==
    /\ vpc = "fetch"
    /\ vi = Len(views)
    /\ vpc' = "done"
    /\ UNCHANGED <<reorderVars, mainVars>>
    /\ UNCHANGED <<views, sorted_views, vi, ddl, mi, handed,
                   skip_unknown_datatypes, castVars, dataVars, orderVars>>

NextViews ==
    FetchDDL \/ FromMatch \/ FromDone \/ JoinMatch \/ JoinDone \/ ReturnViews

SpecViews == InitViews /\ [][NextViews]_vars

-----------------------------------------------------------------------------
(* Claims about order_views (SpecViews).                                   *)

\* C8: the name handed to reorder_vec for a match on `schema`.`W` is W
\* alone, so that a view W standing after the view V being scanned is found
\* and moved in front of V.
C8_ObjectNameHanded ==
    handed.called =>
        /\ handed.ref_name = handed.object
        /\ (/\ Position(handed.before, handed.table_name) # -1
            /\ Position(handed.before, handed.object)
                   > Position(handed.before, handed.table_name))
           => Position(sorted_views, handed.object)
                  < Position(sorted_views, handed.table_name)

-----------------------------------------------------------------------------
(* SpecReorder: reorder_vec called on a list with any two names, and again *)
(* on the list it returned.                                                *)

InitReorder ==
    /\ first_vec \in ListsOf(TableNames)
    /\ held_vec = first_vec
    /\ before = <<>>
    /\ call = <<>>
    /\ calls = 0
    /\ rpc = "calls"
    /\ skip_unknown_datatypes = FALSE
    /\ CastOff /\ DataOff /\ OrderOff /\ ViewOff /\ MainOff

\* sorted_views = reorder_vec(sorted_views, table_name, ref_name)
ReorderCall ==
    /\ rpc = "calls"
    /\ calls < MaxCalls
    /\ \E table_name \in EdgeNames, ref_name \in EdgeNames :
          /\ call' = <<table_name, ref_name>>
          /\ held_vec' = reorder_vec(held_vec, table_name, ref_name)
    /\ before' = held_vec
    /\ calls' = calls + 1
    /\ UNCHANGED <<first_vec, rpc, skip_unknown_datatypes, castVars, dataVars,
                   orderVars, viewVars, mainVars>>

NextReorder == ReorderCall

SpecReorder == InitReorder /\ [][NextReorder]_vars

-----------------------------------------------------------------------------
(* Claims about reorder_vec (SpecReorder).                                 *)

\* whether the second search of reorder_vec finds ref_name
ReorderFindsRef(list, table_name, ref_name) ==
    /\ Position(list, table_name) # -1
    /\ PositionFrom(list, Position(list, table_name) + 1, ref_name) # -1

\* C13: reorder_vec(list, d, r) returns the list one iteration of the loop
\* of order_tables returns for the row (d, r), and finds r exactly when that
\* iteration finds it (d being found).
C13_SamePrimitive ==
    calls > 0 =>
        /\ held_vec = OrderStep(before, call)
        /\ Position(before, call[1]) # -1 =>
              (ReorderFindsRef(before, call[1], call[2])
                  <=> Position(before, call[2]) # -1)

-----------------------------------------------------------------------------
(* SpecLists: order_tables and reorder_vec, each from its own initial     *)
(* states.  order_views changes its list only by the calls of reorder_vec  *)
(* that SpecReorder makes from every list with every pair of names.        *)

InitLists == InitOrder \/ InitReorder

NextLists == NextOrder \/ NextReorder

SpecLists == InitLists /\ [][NextLists]_vars

\* the number of elements of a list that equal x
TimesIn(list, x) == Cardinality({k \in 1..Len(list) : list[k] = x})

\* list holds the elements of original, each as often, and no other
IsPermutation(list, original) ==
    /\ Len(list) = Len(original)
    /\ \A k \in 1..Len(original) :
          TimesIn(list, original[k]) = TimesIn(original, original[k])

\* C14: after every processed row and at the end the list held by
\* order_tables, and after every call the list returned by reorder_vec (the
\* only way order_views changes its list), is a permutation of the list it
\* started from: same names, each once, same length.
C14_Permutation ==
    /\ IsPermutation(sorted_tables, tables)
    /\ IsPermutation(held_vec, first_vec)
    /\ calls > 0 => IsPermutation(held_vec, before)

\* order_tables ended with its tables in another order
C14_Witness ==
    /\ opc = "done"
    /\ Len(tables) = 3
    /\ sorted_tables # tables
    /\ IsPermutation(sorted_tables, tables)

-----------------------------------------------------------------------------
(* SpecData: one iteration of the 'tables loop of export_data.  The only   *)
(* state an iteration hands to the next is the text already written.       *)

InitData ==
    /\ single_row_inserts \in BOOLEAN
    /\ skip_unknown_datatypes \in BOOLEAN
    /\ data_rows = <<>>
    /\ i = 0 /\ col = 0 /\ count = 0
    /\ out = <<>> /\ wstate = "Idle" /\ sizes = <<>>
    /\ dpc = "table"
    /\ CastOff /\ OrderOff /\ ViewOff /\ ReorderOff /\ MainOff

\* the head of the iteration: the comment line, count = 0, the rows fetched,
\* `continue 'tables` for a table without rows
TableBegin ==
    /\ dpc = "table"
    /\ Emit(CommentLine)
    /\ count' = 0
    /\ data_rows' \in FetchedTables
    /\ i' = 0
    /\ dpc' = IF Len(data_rows') = 0 THEN "done" ELSE "row"
    /\ UNCHANGED <<reorderVars, mainVars>>
    /\ UNCHANGED <<single_row_inserts, skip_unknown_datatypes, col,
                   castVars, orderVars, viewVars>>

\* the head of `for i in 0..data_rows.len()`: a row without columns is
\* skipped, otherwise the opener is printed when a statement starts
RowBegin ==
    /\ dpc = "row"
    /\ i < Len(data_rows)
    /\ IF Len(data_rows[i + 1]) = 0
       THEN /\ i' = i + 1
            /\ UNCHANGED <<out, wstate, sizes, col, dpc>>
       ELSE /\ IF OpensStatement(count, single_row_inserts)
               THEN Emit(Opener)
               ELSE UNCHANGED <<out, wstate, sizes>>
            /\ col' = 0
            /\ dpc' = "cell"
            /\ i' = i
    /\ UNCHANGED <<reorderVars, mainVars>>
    /\ UNCHANGED <<single_row_inserts, skip_unknown_datatypes, data_rows,
                   count, castVars, orderVars, viewVars>>

\* cast_data on the next column and the print of its value; a panic of
\* cast_data ends the run
Cell ==
    /\ dpc = "cell"
    /\ LET data == data_rows[i + 1]
           cols == Len(data)
           value == cast_data(data[col + 1], skip_unknown_datatypes)
       IN  IF value.tag = "panic"
           THEN /\ dpc' = "panicked"
                /\ UNCHANGED <<out, wstate, sizes, col>>
           ELSE /\ Emit(ValuePiece(value, col = cols - 1))
                /\ col' = col + 1
                /\ dpc' = IF col = cols - 1 THEN "rowend" ELSE "cell"
    /\ UNCHANGED <<reorderVars, mainVars>>
    /\ UNCHANGED <<single_row_inserts, skip_unknown_datatypes, data_rows,
                   i, count, castVars, orderVars, viewVars>>

\* count = count + 1 and the piece that ends the row
RowEnd ==
    /\ dpc = "rowend"
    /\ count' = count + 1
    /\ Emit(RowTerminator(count + 1, single_row_inserts, i, Len(data_rows)))
    /\ i' = i + 1
    /\ dpc' = "row"
    /\ UNCHANGED <<reorderVars, mainVars>>
    /\ UNCHANGED <<single_row_inserts, skip_unknown_datatypes, data_rows,
                   col, castVars, orderVars, viewVars>>

\* the row loop is exhausted
TableEnd ==
    /\ dpc = "row"
    /\ i = Len(data_rows)
    /\ dpc' = "done"
    /\ UNCHANGED <<reorderVars, mainVars>>
    /\ UNCHANGED <<single_row_inserts, skip_unknown_datatypes, data_rows,
                   i, col, count, out, wstate, sizes, castVars, orderVars,
                   viewVars>>

NextData == TableBegin \/ RowBegin \/ Cell \/ RowEnd \/ TableEnd

SpecData == InitData /\ [][NextData]_vars

-----------------------------------------------------------------------------
(* Claims about export_data (SpecData).                                    *)

\* ceil(m / n)
CeilDiv(m, n) == (m + n - 1) \div n

\* the sum of counts[lo..hi]
RECURSIVE SumOver(_, _, _)
SumOver(counts, lo, hi) ==
    IF lo > hi THEN 0
    ELSE IF lo = hi THEN counts[lo]
    ELSE LET mid == (lo + hi) \div 2
         IN  SumOver(counts, lo, mid) + SumOver(counts, mid + 1, hi)

\* C2: a table of M rows gives ceil(M/N) INSERT statements, N being
\* max_insert_count; each holds N rows except the last, which holds M mod N
\* (or N when N divides M); and no statement ever holds more than N rows.
C2_BatchBoundary ==
    LET N == max_insert_count(single_row_inserts)
        M == Len(data_rows)
    IN  /\ \A k \in 1..Len(sizes) : sizes[k] <= N
        /\ dpc = "done" =>
              /\ Len(sizes) = CeilDiv(M, N)
              /\ \A k \in 1..(Len(sizes) - 1) : sizes[k] = N
              /\ Len(sizes) > 0 =>
                    sizes[Len(sizes)] = IF M % N = 0 THEN N ELSE M % N

\* a table of 2 * 100 + 1 rows was written as statements of 100, 100 and 1
\* rows
C2_Witness ==
    /\ dpc = "done"
    /\ ~single_row_inserts
    /\ Len(data_rows) = 2 * BatchSize + 1
    /\ sizes = <<BatchSize, BatchSize, 1>>

\* C9: for a table of M >= 1 rows the pieces written follow
\* Idle -> Opened -> Row* -> Closed: no piece ever follows one it cannot
\* follow (one opener per statement and only before a row, one separator
\* between two rows of a statement, one closer per statement), and after the
\* last row no statement is open and all M rows are written in statements.
C9_WriterStateMachine ==
    /\ wstate # "Broken"
    /\ (dpc = "done" /\ Len(data_rows) >= 1) =>
          /\ wstate = "Idle"
          /\ Len(sizes) >= 1
          /\ \A k \in 1..Len(sizes) : sizes[k] >= 1
          /\ SumOver(sizes, 1, Len(sizes)) = Len(data_rows)

\* a table of 100 + 1 rows was written in batches: the second statement was
\* opened for the one row left, and closed
C9_Witness ==
    /\ dpc = "done"
    /\ ~single_row_inserts
    /\ Len(data_rows) = BatchSize + 1
    /\ Len(sizes) = 2
    /\ out[Len(out)] = Closer
    /\ wstate = "Idle"

\* C10: when cast_data panics, the text written so far holds no opener
\* without its closing ");".
C10_NoOpenStatementAtAbort ==
    dpc = "panicked" => wstate = "Idle"

-----------------------------------------------------------------------------
(* SpecBoth: export_data and the data loop of main on the same table and   *)
(* flags.  The two are separate runs; main is started when export_data has *)
(* ended, and reads the rows export_data fetched.                          *)

InitBoth ==
    /\ single_row_inserts \in BOOLEAN
    /\ skip_unknown_datatypes \in BOOLEAN
    /\ data_rows = <<>>
    /\ i = 0 /\ col = 0 /\ count = 0
    /\ out = <<>> /\ wstate = "Idle" /\ sizes = <<>>
    /\ dpc = "table"
    /\ main_count = 0 /\ main_i = 0 /\ main_col = 0 /\ main_out = <<>>
    /\ mpc = "table"
    /\ CastOff /\ OrderOff /\ ViewOff /\ ReorderOff

\* the head of `for row in &rows`: the comment line, count = 0, the rows
\* fetched, `continue` for a table without rows
MainTableBegin ==
    /\ mpc = "table"
    /\ dpc \in {"done", "panicked"}
    /\ main_out' = Append(main_out, CommentLine)
    /\ main_count' = 0
    /\ main_i' = 0
    /\ mpc' = IF Len(data_rows) = 0 THEN "done" ELSE "row"
    /\ UNCHANGED <<main_col, skip_unknown_datatypes, dataVars, castVars,
                   orderVars, viewVars, reorderVars>>

\* the head of `for i in 0..data_rows.len()`: a row without columns is
\* skipped, otherwise the opener is printed when count == 0
MainRowBegin ==
    /\ mpc = "row"
    /\ main_i < Len(data_rows)
    /\ IF Len(data_rows[main_i + 1]) = 0
       THEN /\ main_i' = main_i + 1
            /\ UNCHANGED <<main_out, main_col, mpc>>
       ELSE /\ main_out' = IF MainOpensStatement(main_count)
                           THEN Append(main_out, MainOpener)
                           ELSE main_out
            /\ main_col' = 0
            /\ mpc' = "cell"
            /\ main_i' = main_i
    /\ UNCHANGED <<main_count, skip_unknown_datatypes, dataVars, castVars,
                   orderVars, viewVars, reorderVars>>

\* cast_data of main.rs on the next column and the print of its value; a
\* panic ends the run
MainCell ==
    /\ mpc = "cell"
    /\ LET data == data_rows[main_i + 1]
           cols == Len(data)
           value == main_cast_data(data[main_col + 1], skip_unknown_datatypes)
       IN  IF value.tag = "panic"
           THEN /\ mpc' = "panicked"
                /\ UNCHANGED <<main_out, main_col>>
           ELSE /\ main_out' =
                      Append(main_out, ValuePiece(value, main_col = cols - 1))
                /\ main_col' = main_col + 1
                /\ mpc' = IF main_col = cols - 1 THEN "rowend" ELSE "cell"
    /\ UNCHANGED <<main_count, main_i, skip_unknown_datatypes, dataVars,
                   castVars, orderVars, viewVars, reorderVars>>

\* count = count + 1 and the text that ends the row
MainRowEnd ==
    /\ mpc = "rowend"
    /\ main_count' = main_count + 1
    /\ main_out' = main_out \o MainRowTerminator(main_count + 1,
                        single_row_inserts, main_i, Len(data_rows))
    /\ main_i' = main_i + 1
    /\ mpc' = "row"
    /\ UNCHANGED <<main_col, skip_unknown_datatypes, dataVars, castVars,
                   orderVars, viewVars, reorderVars>>

\* the row loop of main is exhausted
MainTableEnd ==
    /\ mpc = "row"
    /\ main_i = Len(data_rows)
    /\ mpc' = "done"
    /\ UNCHANGED <<main_count, main_i, main_col, main_out,
                   skip_unknown_datatypes, dataVars, castVars, orderVars,
                   viewVars, reorderVars>>

NextMain ==
    MainTableBegin \/ MainRowBegin \/ MainCell \/ MainRowEnd \/ MainTableEnd

NextBoth == NextData \/ NextMain

SpecBoth == InitBoth /\ [][NextBoth]_vars

-----------------------------------------------------------------------------
(* Claims about the two data loops (SpecBoth).                             *)

\* the pieces that are statement events: an opener, the last value of a row,
\* a separator, a closing
IsEvent(piece) ==
    piece.k \in {"open", "open_bare", "value", "NULL", "sep", "close",
                 "close_paren"}

\* the event a piece stands for; the closing "));" of main counts as a close
EventOf(piece) ==
    IF piece.k \in {"open", "open_bare"} THEN "open"
    ELSE IF piece.k \in {"value", "NULL"} THEN "row"
    ELSE IF piece.k = "sep" THEN "sep"
    ELSE "close"

\* the open / row / sep / close events of a text, in order
EventsOf(text) ==
    LET events == SelectSeq(text, IsEvent)
    IN  [k \in 1..Len(events) |-> EventOf(events[k])]

\* C15: when both data loops have run to their end on the same rows and
\* flags, main wrote the same sequence of open / row / separator / close
\* events as export_data, closed every statement by ");" alone, and wrote
\* no opener after the last row.
C15_SameStatementStructure ==
    (dpc = "done" /\ mpc = "done") =>
        /\ EventsOf(main_out) = EventsOf(out)
        /\ \A k \in 1..Len(main_out) : main_out[k] # MainBatchCloser
        /\ main_out[Len(main_out)] # MainOpener

=============================================================================
